---------------------------- MODULE Spec2Model ----------------------------
(***************************************************************************)
(* Model of frontend/src/App.js: the two routed screens ProgramSelection   *)
(* and ProgramDetails, their asynchronous requests (list GET, record GET,  *)
(* selection POST), the delayed navigation timers and the global toast     *)
(* host.  Every step of the event loop is one action: a mount effect, a    *)
(* click handler up to its first await, the continuation after an await    *)
(* (success or catch branch), or a timer callback.                         *)
(*                                                                         *)
(* React semantics used: a state setter called on an unmounted component   *)
(* instance is a no-op; a Route whose element type is unchanged keeps its  *)
(* component instance (and state) when only the :programId param changes;  *)
(* toast.* and the navigate function keep working after the component that *)
(* obtained them is unmounted.                                             *)
(***************************************************************************)
EXTENDS Naturals, Integers, Sequences, FiniteSets, TLC

\* ------------------------------------------------------------ bounds
MaxClicks   == 2      \* card clicks in a run
MaxMounts   == 3      \* "Back to Programs" is offered while fewer screens were mounted

\* ------------------------------------------------------------ data
\* The ids of the backend's programs: a program P and a different program Q.
ProgramIds == {1, 2}

\* The route "/" (the selection grid); a detail route /program/<id> is the id.
GridRoute == 0

\* The delay of the navigation timer, in ms.
NavigateDelay == 1000

\* A Program record as the backend serves it (the fields the logic reads).
Program(i) == [id |-> i, name |-> <<"Prg", i>>]

\* JS null in a useState slot; null?.id is undefined, equal to no program id.
Null == [id |-> 0, name |-> <<>>]

RECURSIVE Perms(_)
Perms(S) ==
  IF S = {} THEN {<<>>}
  ELSE UNION {{<<x>> \o p : p \in Perms(S \ {x})} : x \in S}

\* The arrays GET /api/programs can return: programs with pairwise distinct ids.
ListResponses ==
  UNION {{[k \in DOMAIN p |-> Program(p[k])] : p \in Perms(S)} : S \in SUBSET ProgramIds}

VARIABLES
  route,            \* current location: GridRoute or a program id
  inst,             \* identity of the mounted screen instance (counts mounts)
  programs,         \* ProgramSelection: useState([])
  selectedProgram,  \* ProgramSelection: useState(null)
  loading,          \* ProgramSelection: useState(true)
  program,          \* ProgramDetails: useState(null)
  detailsLoading,   \* ProgramDetails: useState(true)
  listReqs,         \* in-flight GET /programs, by issuing instance
  selReqs,          \* in-flight POST /select-program
  recReqs,          \* in-flight GET /programs/<id>
  nFetch,           \* record requests issued so far
  timers,           \* pending setTimeout callbacks, in firing order
  toasts,           \* notifications shown, counted by message
  posts,            \* every selection request body sent, in order
  clickLog,         \* observation: program of every card click, in order
  okLog,            \* observation: selection requests in the order they succeeded
  navLog,           \* observation: selection requests in the order their timer fired
  lateOk,           \* observation: selection requests that succeeded after their screen was left
  listResult,       \* observation: outcome of the mounted grid's list request
  curFetch          \* observation: the latest record request of the mounted detail screen

vars == <<route, inst, programs, selectedProgram, loading, program, detailsLoading,
          listReqs, selReqs, recReqs, nFetch, timers, toasts, posts,
          clickLog, okLog, navLog, lateOk, listResult, curFetch>>

selectionState == <<programs, selectedProgram, loading>>
detailsState   == <<program, detailsLoading>>
observed       == <<clickLog, okLog, navLog, lateOk>>

NoList  == [status |-> "none", data |-> <<>>]
NoFetch == [fid |-> 0, id |-> 0, status |-> "none"]

Range(s) == {s[k] : k \in DOMAIN s}

\* ------------------------------------------------------------ rendering
\* Which branch ProgramSelection renders.
SelectionView == IF loading THEN "loading" ELSE "grid"

\* isSelected of the card of program p.
isSelected(p) == selectedProgram.id = p.id

\* The cards of the grid: programs.map(...), one per array element.
Cards == [k \in DOMAIN programs |-> [key |-> programs[k].id, isSelected |-> isSelected(programs[k])]]

\* Which branch ProgramDetails renders.
DetailsView ==
  IF detailsLoading THEN "loading"
  ELSE IF program = Null THEN "not-found"
  ELSE "record"

\* ------------------------------------------------------------ mounting
\* A record request as fetchProgram issues it for the id of its closure.
IssueFetch(owner, id) ==
  /\ nFetch' = nFetch + 1
  /\ recReqs' = recReqs \cup {[fid |-> nFetch + 1, inst |-> owner, id |-> id]}
  /\ curFetch' = [fid |-> nFetch + 1, id |-> id, status |-> "pending"]

\* ProgramSelection mounts: initial state, then the mount effect calls fetchPrograms.
MountSelection(newInst) ==
  /\ inst' = newInst
  /\ programs' = <<>>
  /\ selectedProgram' = Null
  /\ loading' = TRUE
  /\ listReqs' = listReqs \cup {newInst}
  /\ listResult' = [status |-> "pending", data |-> <<>>]
  /\ program' = Null
  /\ detailsLoading' = TRUE
  /\ curFetch' = NoFetch
  /\ UNCHANGED <<recReqs, nFetch>>

\* ProgramDetails mounts: initial state, then the effect calls fetchProgram.
MountDetails(newInst, id) ==
  /\ inst' = newInst
  /\ program' = Null
  /\ detailsLoading' = TRUE
  /\ IssueFetch(newInst, id)
  /\ programs' = <<>>
  /\ selectedProgram' = Null
  /\ loading' = TRUE
  /\ listResult' = NoList
  /\ UNCHANGED listReqs

\* navigate(to): the router renders the route's element.
Navigate(to) ==
  /\ route' = to
  /\ IF to = route
       THEN UNCHANGED <<inst, selectionState, detailsState, listReqs, recReqs,
                        nFetch, listResult, curFetch>>
     ELSE IF to = GridRoute
       THEN MountSelection(inst + 1)
     ELSE IF route = GridRoute
       THEN MountDetails(inst + 1, to)
     ELSE \* same ProgramDetails instance, new :programId: the effect runs again
          /\ IssueFetch(inst, to)
          /\ UNCHANGED <<inst, selectionState, detailsState, listReqs, listResult>>

\* ------------------------------------------------------------ initial state
\* The application is opened at "/" or directly at a detail route.
Init ==
  /\ route \in {GridRoute} \cup ProgramIds
  /\ inst = 1
  /\ programs = <<>>
  /\ selectedProgram = Null
  /\ loading = TRUE
  /\ program = Null
  /\ detailsLoading = TRUE
  /\ listReqs = IF route = GridRoute THEN {1} ELSE {}
  /\ recReqs = IF route = GridRoute THEN {} ELSE {[fid |-> 1, inst |-> 1, id |-> route]}
  /\ nFetch = IF route = GridRoute THEN 0 ELSE 1
  /\ listResult = IF route = GridRoute THEN [status |-> "pending", data |-> <<>>] ELSE NoList
  /\ curFetch = IF route = GridRoute THEN NoFetch
                ELSE [fid |-> 1, id |-> route, status |-> "pending"]
  /\ selReqs = {}
  /\ timers = <<>>
  /\ toasts = [success |-> 0, listError |-> 0, selectError |-> 0, detailsError |-> 0]
  /\ posts = <<>>
  /\ clickLog = <<>>
  /\ okLog = <<>>
  /\ navLog = <<>>
  /\ lateOk = {}

\* ------------------------------------------------------------ ProgramSelection
\* fetchPrograms, after the await, try branch.
FetchProgramsOk(g, data) ==
  /\ g \in listReqs
  /\ listReqs' = listReqs \ {g}
  /\ IF g = inst
       THEN /\ programs' = data
            /\ loading' = FALSE
            /\ listResult' = [status |-> "ok", data |-> data]
       ELSE UNCHANGED <<programs, loading, listResult>>
  /\ UNCHANGED <<route, inst, selectedProgram, detailsState, selReqs, recReqs, nFetch,
                 timers, toasts, posts, observed, curFetch>>

\* Variant of the catch branch that shows the toast but never stops loading.
FetchProgramsFailKeepsLoading(g) ==
  /\ g \in listReqs
  /\ listReqs' = listReqs \ {g}
  /\ toasts' = [toasts EXCEPT !.listError = @ + 1]
  /\ listResult' = IF g = inst THEN [status |-> "fail", data |-> <<>>] ELSE listResult
  /\ UNCHANGED <<route, inst, programs, loading, selectedProgram, detailsState, selReqs,
                 recReqs, nFetch, timers, posts, observed, curFetch>>

\* fetchPrograms, catch branch.
FetchProgramsFail(g) ==
  /\ g \in listReqs
  /\ listReqs' = listReqs \ {g}
  /\ toasts' = [toasts EXCEPT !.listError = @ + 1]
  /\ IF g = inst
       THEN /\ loading' = FALSE
            /\ listResult' = [status |-> "fail", data |-> <<>>]
       ELSE UNCHANGED <<loading, listResult>>
  /\ UNCHANGED <<route, inst, programs, selectedProgram, detailsState, selReqs, recReqs,
                 nFetch, timers, posts, observed, curFetch>>

\* Variant of the request body built from the selectedProgram state of the
\* render the handler closed over, instead of from the handler's argument.
PayloadFromState(p) ==
  [program_id |-> selectedProgram.id, program_name |-> selectedProgram.name,
   user_session |-> "session_now"]

\* The body of the selection request for program p.
Payload(p) == [program_id |-> p.id, program_name |-> p.name, user_session |-> "session_now"]

\* Card onClick: handleProgramSelect(program) up to the await.
Click(k) ==
  /\ route = GridRoute
  /\ SelectionView = "grid"
  /\ k \in DOMAIN programs
  /\ Len(clickLog) < MaxClicks
  /\ selectedProgram' = programs[k]
  /\ posts' = Append(posts, Payload(programs[k]))
  /\ selReqs' = selReqs \cup {[rid |-> Len(posts) + 1, inst |-> inst, program |-> programs[k]]}
  /\ clickLog' = Append(clickLog, programs[k])
  /\ UNCHANGED <<route, inst, programs, loading, detailsState, listReqs, recReqs, nFetch,
                 timers, toasts, okLog, navLog, lateOk, listResult, curFetch>>

\* Variant of the try branch that shows the toast and schedules no navigation.
SelectOkNoNavigate(r) ==
  /\ r \in selReqs
  /\ selReqs' = selReqs \ {r}
  /\ toasts' = [toasts EXCEPT !.success = @ + 1]
  /\ okLog' = Append(okLog, r.rid)
  /\ lateOk' = IF r.inst = inst THEN lateOk ELSE lateOk \cup {r.rid}
  /\ UNCHANGED <<route, inst, selectionState, detailsState, listReqs, recReqs, nFetch,
                 timers, posts, clickLog, navLog, listResult, curFetch>>

\* handleProgramSelect after the await, try branch: toast, then schedule the navigation.
SelectOk(r) ==
  /\ r \in selReqs
  /\ selReqs' = selReqs \ {r}
  /\ toasts' = [toasts EXCEPT !.success = @ + 1]
  /\ timers' = Append(timers, [rid |-> r.rid, id |-> r.program.id, delay |-> NavigateDelay])
  /\ okLog' = Append(okLog, r.rid)
  /\ lateOk' = IF r.inst = inst THEN lateOk ELSE lateOk \cup {r.rid}
  /\ UNCHANGED <<route, inst, selectionState, detailsState, listReqs, recReqs, nFetch,
                 posts, clickLog, navLog, listResult, curFetch>>

\* Variant of the catch branch that shows the toast and keeps the selection.
SelectFailKeepsSelection(r) ==
  /\ r \in selReqs
  /\ selReqs' = selReqs \ {r}
  /\ toasts' = [toasts EXCEPT !.selectError = @ + 1]
  /\ UNCHANGED <<route, inst, selectionState, detailsState, listReqs, recReqs, nFetch,
                 timers, posts, observed, listResult, curFetch>>

\* handleProgramSelect, catch branch.
SelectFail(r) ==
  /\ r \in selReqs
  /\ selReqs' = selReqs \ {r}
  /\ toasts' = [toasts EXCEPT !.selectError = @ + 1]
  /\ selectedProgram' = IF r.inst = inst THEN Null ELSE selectedProgram
  /\ UNCHANGED <<route, inst, programs, loading, detailsState, listReqs, recReqs, nFetch,
                 timers, posts, observed, listResult, curFetch>>

\* Variant of the timer queue that runs the most recently set timer first.
TimerFireLatest ==
  /\ timers # <<>>
  /\ Navigate(timers[Len(timers)].id)
  /\ timers' = SubSeq(timers, 1, Len(timers) - 1)
  /\ navLog' = Append(navLog, timers[Len(timers)].rid)
  /\ UNCHANGED <<selReqs, toasts, posts, clickLog, okLog, lateOk>>

\* The setTimeout callback: timers of equal delay fire in the order they were set.
TimerFire ==
  /\ timers # <<>>
  /\ Navigate(Head(timers).id)
  /\ timers' = Tail(timers)
  /\ navLog' = Append(navLog, Head(timers).rid)
  /\ UNCHANGED <<selReqs, toasts, posts, clickLog, okLog, lateOk>>

\* ------------------------------------------------------------ ProgramDetails
\* fetchProgram after the await, try branch; the backend serves the record of the id asked.
FetchProgramOk(q) ==
  /\ q \in recReqs
  /\ recReqs' = recReqs \ {q}
  /\ IF q.inst = inst
       THEN /\ program' = Program(q.id)
            /\ detailsLoading' = FALSE
       ELSE UNCHANGED detailsState
  /\ curFetch' = IF q.inst = inst /\ q.fid = curFetch.fid
                   THEN [curFetch EXCEPT !.status = "ok"] ELSE curFetch
  /\ UNCHANGED <<route, inst, selectionState, listReqs, selReqs, nFetch, timers, toasts,
                 posts, observed, listResult>>

\* fetchProgram, catch branch (missing record or network error).
FetchProgramFail(q) ==
  /\ q \in recReqs
  /\ recReqs' = recReqs \ {q}
  /\ toasts' = [toasts EXCEPT !.detailsError = @ + 1]
  /\ IF q.inst = inst
       THEN /\ detailsLoading' = FALSE
            /\ UNCHANGED program
       ELSE UNCHANGED detailsState
  /\ curFetch' = IF q.inst = inst /\ q.fid = curFetch.fid
                   THEN [curFetch EXCEPT !.status = "fail"] ELSE curFetch
  /\ UNCHANGED <<route, inst, selectionState, listReqs, selReqs, nFetch, timers,
                 posts, observed, listResult>>

\* "Back to Programs", rendered in the not-found and the record branch.
Back ==
  /\ route # GridRoute
  /\ DetailsView # "loading"
  /\ inst < MaxMounts
  /\ Navigate(GridRoute)
  /\ UNCHANGED <<selReqs, timers, toasts, posts, observed>>

\* ------------------------------------------------------------ specification
Next ==
  \/ \E g \in listReqs, data \in ListResponses : FetchProgramsOk(g, data)
  \/ \E g \in listReqs : FetchProgramsFail(g)
  \/ \E k \in DOMAIN programs : Click(k)
  \/ \E r \in selReqs : SelectOk(r)
  \/ \E r \in selReqs : SelectFail(r)
  \/ TimerFire
  \/ \E q \in recReqs : FetchProgramOk(q)
  \/ \E q \in recReqs : FetchProgramFail(q)
  \/ Back

Spec == Init /\ [][Next]_vars

\* The browser runs every timer that is due.
FairSpec == Spec /\ WF_vars(TimerFire)


\* ------------------------------------------------------------ properties
Last(s) == s[Len(s)]

\* The requests whose timers are pending, in firing order.
TimerRids == [k \in DOMAIN timers |-> timers[k].rid]

\* C1: every selection request that has succeeded has shown one success
\* notification, and one whose navigation has not fired yet leads to the
\* application being at the detail route of the program it was sent for; a
\* navigation is only ever scheduled or fired for a request that has already
\* succeeded.
C1_SuccessNavigates ==
  /\ [](/\ toasts.success = Len(okLog)
        /\ Range(navLog) \cup Range(TimerRids) \subseteq Range(okLog)
        /\ \A r \in selReqs : r.rid \notin Range(okLog))
  /\ \A n \in 1..MaxClicks :
       (n \in Range(okLog) /\ n \notin Range(navLog)) ~>
         (navLog # <<>> /\ Last(navLog) = n /\ route = posts[n].program_id)

C1_Witness ==
  /\ navLog # <<>>
  /\ toasts.success > 0
  /\ route = posts[Last(navLog)].program_id

\* C2: the step in which a selection request fails shows one error
\* notification, schedules no navigation and leaves the route as it is; when
\* the grid that sent it is still mounted, no card is marked selected
\* afterwards and the grid is shown, ready for another click.
C2_FailureReverts ==
  [][\A r \in selReqs :
       (r \notin selReqs' /\ toasts'.selectError # toasts.selectError) =>
         /\ toasts'.selectError = toasts.selectError + 1
         /\ toasts'.success = toasts.success
         /\ timers' = timers
         /\ route' = route
         /\ r.inst = inst =>
              /\ route' = GridRoute
              /\ SelectionView' = "grid"
              /\ \A k \in DOMAIN Cards' : ~Cards'[k].isSelected]_vars

C2_Witness ==
  /\ route = GridRoute
  /\ toasts.selectError > 0
  /\ clickLog # <<>>
  /\ selReqs = {}
  /\ selectedProgram = Null
  /\ timers = <<>>
  /\ navLog = <<>>

\* C3: the selection requests sent are exactly the card clicks, one per click
\* and in the same order, each carrying the id and the name of the clicked
\* program; every request is resolved at most once and never sent again.
C3_OneRequestPerClick ==
  /\ Len(posts) = Len(clickLog)
  /\ \A k \in DOMAIN posts :
       /\ posts[k].program_id = clickLog[k].id
       /\ posts[k].program_name = clickLog[k].name
  /\ Cardinality(selReqs) + toasts.success + toasts.selectError = Len(clickLog)

C3_Witness ==
  /\ Len(clickLog) >= 2
  /\ toasts.success >= 1
  /\ toasts.selectError >= 1

\* C4: while the grid screen is mounted it shows the loading indicator exactly
\* while its one list request is pending; after success it holds one card per
\* returned program, keyed by the program's id; after failure it holds no
\* card, and the failing step shows exactly one error notification; no second
\* list request is issued for the same mount.
C4_ListLoading ==
  /\ [](route = GridRoute =>
          /\ (SelectionView = "loading") <=> (inst \in listReqs)
          /\ (listResult.status = "pending") <=> (inst \in listReqs)
          /\ listResult.status = "ok" =>
               /\ Len(Cards) = Len(listResult.data)
               /\ \A k \in DOMAIN Cards : Cards[k].key = listResult.data[k].id
          /\ listResult.status = "fail" => Len(Cards) = 0)
  /\ [][/\ (listResult.status = "pending" /\ listResult'.status = "fail") =>
             toasts'.listError = toasts.listError + 1
        /\ (listResult.status \in {"ok", "fail"} /\ route' = route) =>
             (listResult' = listResult /\ listReqs' \subseteq listReqs)]_vars

C4_Witness ==
  /\ route = GridRoute
  /\ listResult.status = "fail"
  /\ toasts.listError = 1
  /\ SelectionView = "grid"
  /\ Len(Cards) = 0

\* C5: whenever the latest record request of the detail screen (the one for
\* the identifier in the route) has failed, the screen renders the not-found
\* state.
C5_FailedIsNotFound ==
  (route # GridRoute /\ curFetch.status = "fail") => DetailsView = "not-found"

\* C6: while the detail screen is mounted a record request has been issued
\* for the identifier in the route, and while that request is pending the
\* loading indicator is shown.
C6_PendingIsLoading ==
  route # GridRoute =>
    /\ curFetch.id = route
    /\ curFetch.status = "pending" => DetailsView = "loading"

\* C7: a request that resolves after the screen that sent it was unmounted is
\* not cancelled but its result is discarded: the resolving step changes
\* neither the route nor the state of the screen shown, and a selection
\* request that succeeded that way never changes the route later.
C7_LateResultDiscarded ==
  [][/\ \A r \in selReqs \ selReqs' :
          r.inst # inst => UNCHANGED <<route, selectionState, detailsState>>
     /\ \A g \in listReqs \ listReqs' :
          g # inst => UNCHANGED <<route, selectionState, detailsState>>
     /\ \A q \in recReqs \ recReqs' :
          q.inst # inst => UNCHANGED <<route, selectionState, detailsState>>
     /\ (navLog' # navLog /\ Head(timers).rid \in lateOk) =>
          UNCHANGED <<route, selectionState, detailsState>>]_vars

\* C8: at most one card is marked selected; a click makes the clicked program
\* the provisional selection and cancels no pending request; navigations fire
\* one per succeeded request in the order the requests succeeded; after a
\* navigation has fired the detail route shown is that of the last one.
C8_LastNavigationWins ==
  /\ [](/\ Cardinality({k \in DOMAIN Cards : Cards[k].isSelected}) <= 1
        /\ okLog = navLog \o TimerRids
        /\ (navLog # <<>> /\ route # GridRoute) =>
             route = posts[Last(navLog)].program_id)
  /\ [][/\ Len(clickLog') > Len(clickLog) =>
             /\ selectedProgram' = Last(clickLog')
             /\ selReqs \subseteq selReqs'
        /\ navLog' # navLog => route' = posts[Last(navLog')].program_id]_vars

C8_Witness ==
  /\ okLog = <<2, 1>>
  /\ navLog = <<2, 1>>
  /\ posts[1].program_id # posts[2].program_id
  /\ route = posts[1].program_id

\* C9: the failure of the selection request for P leaves the provisional
\* selection of a different program Q as it is.
C9_FailureClearsOnlyOwn ==
  [][\A r \in selReqs \ selReqs' :
       (/\ toasts'.selectError # toasts.selectError
        /\ selectedProgram # Null
        /\ selectedProgram.id # r.program.id) =>
         selectedProgram' = selectedProgram]_vars

\* C10: a record displayed by the detail screen is the record of the
\* identifier in the route.
C10_RecordMatchesRoute ==
  (route # GridRoute /\ DetailsView = "record") => program.id = route

=============================================================================
